---------------------------- MODULE Spec2Model ----------------------------
(***************************************************************************)
(* Stochastic local search for SAT: the incremental solver Gsat            *)
(* (src/sat/gsat.py on the Configuration and FormulaHelper of              *)
(* src/sat/sat.py) and the probabilistic make/break solver randsat         *)
(* (src/randsat.py on the Configuration of src/sat.py).                    *)
(*                                                                         *)
(* A Python list is a sequence; the Python index k >= 0 is position k + 1  *)
(* and the Python index -k is position Len - k + 1.  Python's None is 0,   *)
(* which is no literal.  A list object lives in a cell of `heap`, and a    *)
(* Configuration is the reference (cell number) its variable_evaluation    *)
(* holds, 0 while it is None.  random.random() returns r / RandResolution  *)
(* for r in 0 .. RandResolution - 1, and `probability` is the numerator of *)
(* a fraction of RandResolution.                                           *)
(***************************************************************************)
EXTENDS Integers, Sequences, FiniteSets, TLC

\* Bounds of the checked runs.
MaxTries == 2
MaxIters == 2
RandResolution == 2
MaxExponent == 1
MaxLists == 4

VARIABLES
    algo,                          \* "Gsat" (src/sat/gsat.py), "randsat" (src/randsat.py)
                                   \* or "gsat" (the function of src/gsat.py)
    formula,                       \* the CNF: a list of clauses, each a list of literals
    nv,                            \* formula.nv
    probability,                   \* Gsat: numerator of the random-walk rate
    max_tries,
    max_iters,                     \* max_iters (Gsat) / max_flips (randsat)
    cm,
    cb,
    helper,                        \* FormulaHelper.clauses_per_var
    heap,                          \* the list objects
    working_config,                \* Gsat.working_config / the trial's config (randsat)
    best_config,                   \* Gsat.best_config / randsat's best_config
    best_satisfied_count,          \* Gsat.best_satisfied_count / randsat's best_satisfied_count
    try_best_config,               \* randsat: best_config of _do_randsat_try
    try_best_satisfied_count,      \* randsat: best_satisfied_count of _do_randsat_try
    counts_of_satisfied_literals,  \* Gsat.counts_of_satisfied_literals
    solved,
    satisfied_count,               \* randsat: satisfied_count of the driver
    try_no,
    iter_no,                       \* iter_no (Gsat) / flip_no (randsat)
    iteration_count,               \* the count the run reports
    r,                             \* Gsat: the value random.random() returned in this iteration
    branch,                        \* the branch this iteration took ("none" before it)
    flip_count,                    \* the flip_variable calls of the run so far
    try_flip_count,                \* the flip_variable calls of the trial so far
    inspection_count,              \* the loop iterations of the run so far
    try_inspection_count,          \* the loop iterations of the trial so far
    scoring_i,                     \* _get_best_flips: its loop variable i
    scoring_best_flips,            \* _get_best_flips: its list best_flips
    scoring_pair,                  \* sat_change_if_fliped: the pairs of helper[i] done
    scoring_change,                \* sat_change_if_fliped: its accumulator change
    pc

inputs == <<algo, formula, nv, probability, max_tries, max_iters, cm, cb, helper>>

vars == <<algo, formula, nv, probability, max_tries, max_iters, cm, cb, helper,
          heap, working_config, best_config, best_satisfied_count,
          try_best_config, try_best_satisfied_count,
          counts_of_satisfied_literals, solved, satisfied_count, try_no,
          iter_no, iteration_count, r, branch, flip_count, try_flip_count,
          inspection_count, try_inspection_count,
          scoring_i, scoring_best_flips, scoring_pair, scoring_change, pc>>

\* the locals of a greedy step executed statement by statement
scoring == <<scoring_i, scoring_best_flips, scoring_pair, scoring_change>>

---------------------------------------------------------------------------
\* Python primitives.

abs(x) == IF x < 0 THEN -x ELSE x

PyIndex(lst, k) == IF k >= 0 THEN k + 1 ELSE Len(lst) + k + 1

PyGet(lst, k) == lst[PyIndex(lst, k)]

reverse(lst) == [i \in 1..Len(lst) |-> lst[Len(lst) - i + 1]]

RECURSIVE SumSeq(_)
SumSeq(s) == IF s = <<>> THEN 0 ELSE Head(s) + SumSeq(Tail(s))

RECURSIVE SelectIndices(_, _)
\* the positions i .. Len(flags) at which flags is TRUE, in order
SelectIndices(flags, i) ==
    IF i > Len(flags) THEN <<>>
    ELSE (IF flags[i] THEN <<i>> ELSE <<>>) \o SelectIndices(flags, i + 1)

Range(s) == {s[i] : i \in 1..Len(s)}

Literals(n) == (-n..n) \ {0}

---------------------------------------------------------------------------
\* src/sat/sat.py: Configuration with the mirrored list
\* [None, e1, .., eN, eN, .., e1].

\* the list set_random builds when random.choice returns is_true[i] for variable i
set_random(variable_cnt, is_true) ==
    LET evaluation == <<0>> \o [i \in 1..variable_cnt |->
                                    IF is_true[i] THEN i ELSE -i]
        extended == evaluation \o reverse(evaluation)
    IN  SubSeq(extended, 1, Len(extended) - 1)

\* flip_variable assigning the negated name instead of negating the entry
flip_variable_assigning(variable_evaluation, variable_name) ==
    LET variable_index == abs(variable_name)
        first == [variable_evaluation EXCEPT
                     ![PyIndex(variable_evaluation, variable_index)] = -variable_index]
    IN  [first EXCEPT ![PyIndex(first, -variable_index)] = -variable_index]

\* flip_variable without its second assignment: the mirrored entry keeps its sign
flip_variable_unmirrored(variable_evaluation, variable_name) ==
    [variable_evaluation EXCEPT
        ![PyIndex(variable_evaluation, abs(variable_name))] = -@]

flip_variable(variable_evaluation, variable_name) ==
    LET variable_index == abs(variable_name)
        first == [variable_evaluation EXCEPT
                     ![PyIndex(variable_evaluation, variable_index)] = -@]
    IN  [first EXCEPT ![PyIndex(first, -variable_index)] = -@]

\* evaluate_variable looking at the variable's value alone, whatever the
\* polarity of the literal
evaluate_variable_ignoring_polarity(variable_evaluation, variable_name) ==
    PyGet(variable_evaluation, abs(variable_name)) > 0

evaluate_variable(variable_evaluation, variable_name) ==
    variable_name = PyGet(variable_evaluation, variable_name)

\* get_evaluation with the slice [1 : variable_cnt], one entry short
get_evaluation_short(variable_evaluation, variable_cnt) ==
    SubSeq(variable_evaluation, 2, variable_cnt)

get_evaluation(variable_evaluation, variable_cnt) ==
    SubSeq(variable_evaluation, 2, variable_cnt + 1)

RECURSIVE pairs_of_every_mention(_, _, _)
\* from clause i on, the pair of a clause once for each of its literals on
\* variable_no
pairs_of_every_mention(form, variable_no, i) ==
    IF i > Len(form) THEN <<>>
    ELSE LET hits == SelectIndices([j \in 1..Len(form[i]) |->
                                       variable_no = abs(form[i][j])], 1)
         IN  [k \in 1..Len(hits) |-> <<form[i], i - 1>>]
                 \o pairs_of_every_mention(form, variable_no, i + 1)

\* _find_clauses_for_var without its break
find_clauses_for_var_without_break(form, variable_no) ==
    pairs_of_every_mention(form, variable_no, 1)

\* src/sat/sat.py: FormulaHelper, the (clause, clause index) pairs of a variable
find_clauses_for_var(form, variable_no) ==
    LET mentions == [i \in 1..Len(form) |->
                         \E j \in 1..Len(form[i]) : variable_no = abs(form[i][j])]
        hits == SelectIndices(mentions, 1)
    IN  [k \in 1..Len(hits) |-> <<form[hits[k]], hits[k] - 1>>]

FormulaHelper(form, n) ==
    [key \in Literals(n) |-> find_clauses_for_var(form, abs(key))]


---------------------------------------------------------------------------
\* src/sat/gsat.py: class Gsat.

\* the number of literals of `clause` that are true
count_of_satisfied_literals(clause, variable_evaluation) ==
    Cardinality({j \in 1..Len(clause) :
                    evaluate_variable(variable_evaluation, clause[j])})

calculate_counts_of_satisfied_literals(form, variable_evaluation) ==
    [c \in 1..Len(form) |-> count_of_satisfied_literals(form[c], variable_evaluation)]

RECURSIVE recalculate_counts(_, _, _)
\* the loop of Gsat.flip_variable over the (clause, clause_index) pairs
recalculate_counts(counts, pairs, variable_evaluation) ==
    IF pairs = <<>> THEN counts
    ELSE recalculate_counts(
             [counts EXCEPT ![PyIndex(counts, Head(pairs)[2])] =
                 count_of_satisfied_literals(Head(pairs)[1], variable_evaluation)],
             Tail(pairs), variable_evaluation)

\* Gsat.flip_variable: the new list of working_config and the new counts
Gsat_flip_variable(variable_evaluation, counts, hlp, variable_name) ==
    LET flipped == flip_variable(variable_evaluation, variable_name)
    IN  [variable_evaluation |-> flipped,
         counts |-> recalculate_counts(counts, hlp[variable_name], flipped)]

RECURSIVE sat_change_loop(_, _, _, _)
sat_change_loop(pairs, counts, variable_evaluation, variable_name) ==
    IF pairs = <<>> THEN 0
    ELSE LET clause == Head(pairs)[1]
             cnt == PyGet(counts, Head(pairs)[2])
             this == IF cnt = 0 THEN 1
                     ELSE IF cnt = 1
                             /\ \E j \in 1..Len(clause) :
                                   /\ abs(clause[j]) = variable_name
                                   /\ evaluate_variable(variable_evaluation, clause[j])
                          THEN -1
                          ELSE 0
         IN  this + sat_change_loop(Tail(pairs), counts, variable_evaluation,
                                    variable_name)

\* sat_change_if_fliped taking every clause with one true literal for a break,
\* whichever literal that is
sat_change_any_single(hlp, counts, variable_evaluation, variable_name) ==
    LET pairs == hlp[variable_name]
    IN  SumSeq([k \in 1..Len(pairs) |->
                   IF PyGet(counts, pairs[k][2]) = 0 THEN 1
                   ELSE IF PyGet(counts, pairs[k][2]) = 1 THEN -1 ELSE 0])

sat_change_if_fliped(hlp, counts, variable_evaluation, variable_name) ==
    sat_change_loop(hlp[variable_name], counts, variable_evaluation, variable_name)

get_unsatisfied_clauses(form, counts) ==
    LET zipped == IF Len(form) < Len(counts) THEN Len(form) ELSE Len(counts)
        unsat == SelectIndices([c \in 1..zipped |-> counts[c] = 0], 1)
    IN  [k \in 1..Len(unsat) |-> form[unsat[k]]]

RECURSIVE best_flips_loop(_, _, _, _, _, _, _)
\* the loop of Gsat._get_best_flips from variable i on; best_change is the
\* local of that name, which the loop never assigns
best_flips_loop(i, n, best_change, best_flips, hlp, counts, variable_evaluation) ==
    IF i > n THEN best_flips
    ELSE LET change == sat_change_if_fliped(hlp, counts, variable_evaluation, i)
         IN  best_flips_loop(i + 1, n, best_change,
                             IF change = best_change THEN Append(best_flips, i)
                             ELSE IF change > best_change THEN <<i>>
                             ELSE best_flips,
                             hlp, counts, variable_evaluation)

\* _get_best_flips starting best_change at clauses_cnt, the sign of the
\* count of unsatisfied clauses
get_best_flips_positive_start(hlp, counts, variable_evaluation, n, clauses_cnt) ==
    best_flips_loop(1, n, clauses_cnt, <<>>, hlp, counts, variable_evaluation)

get_best_flips(hlp, counts, variable_evaluation, n, clauses_cnt) ==
    best_flips_loop(1, n, -clauses_cnt, <<>>, hlp, counts, variable_evaluation)

\* the comparison against 0 instead of the best so far
replaces_best_always(count, best) == count >= 0

\* the comparison without the tie
replaces_best_strictly(count, best) == count > best

\* `satisfied_count >= self.best_satisfied_count`
replaces_best(count, best) == count >= best

\* the comparison the other way round
is_random_step_inverted(drawn, prob) == drawn >= prob

\* `random.random() <= self.probability`
is_random_step(drawn, prob) == drawn <= prob

---------------------------------------------------------------------------
\* src/sat.py: Configuration with the plain list [e1, .., eN], and the
\* helpers randsat imports.

top_set_random(variable_cnt, is_true) ==
    [i \in 1..variable_cnt |-> IF is_true[i] THEN i ELSE -i]

top_flip_variable(variable_evaluation, variable_name) ==
    LET variable_index == abs(variable_name) - 1
    IN  [variable_evaluation EXCEPT
            ![PyIndex(variable_evaluation, variable_index)] = -@]

top_evaluate_variable(variable_evaluation, variable_name) ==
    LET variable_index == abs(variable_name) - 1
    IN  variable_name = PyGet(variable_evaluation, variable_index)

top_find_clauses_for_var(form, variable_no) ==
    LET mentions == [i \in 1..Len(form) |->
                         \E j \in 1..Len(form[i]) : variable_no = abs(form[i][j])]
        hits == SelectIndices(mentions, 1)
    IN  [k \in 1..Len(hits) |-> form[hits[k]]]

top_FormulaHelper(form, n) ==
    [key \in Literals(n) |-> top_find_clauses_for_var(form, abs(key))]

\* whether some literal of the clause is true (the inner loop with its break)
clause_satisfied(clause, variable_evaluation) ==
    \E j \in 1..Len(clause) : top_evaluate_variable(variable_evaluation, clause[j])

top_get_unsatisfied_clauses(form, variable_evaluation) ==
    LET unsat == SelectIndices([c \in 1..Len(form) |->
                                   ~clause_satisfied(form[c], variable_evaluation)], 1)
    IN  [k \in 1..Len(unsat) |-> form[unsat[k]]]

---------------------------------------------------------------------------
\* src/randsat.py

get_formula_evals(form, variable_evaluation) ==
    [c \in 1..Len(form) |-> clause_satisfied(form[c], variable_evaluation)]

\* satisfaction_changes_on_flip with the two counters taken for each other
satisfaction_changes_swapped(form, variable_evaluation, variable) ==
    LET old_clause_evals == get_formula_evals(form, variable_evaluation)
        flipped == top_flip_variable(variable_evaluation, variable)
        new_clause_evals == get_formula_evals(form, flipped)
        restored == top_flip_variable(flipped, variable)
    IN  [new_satisfied |->
             Cardinality({c \in 1..Len(form) :
                             ~new_clause_evals[c] /\ old_clause_evals[c]}),
         new_unsatisfied |->
             Cardinality({c \in 1..Len(form) :
                             new_clause_evals[c] /\ ~old_clause_evals[c]}),
         variable_evaluation |-> restored]

\* make, break, and the list of config as satisfaction_changes_on_flip leaves it
satisfaction_changes_on_flip(form, variable_evaluation, variable) ==
    LET old_clause_evals == get_formula_evals(form, variable_evaluation)
        flipped == top_flip_variable(variable_evaluation, variable)
        new_clause_evals == get_formula_evals(form, flipped)
        restored == top_flip_variable(flipped, variable)
    IN  [new_satisfied |->
             Cardinality({c \in 1..Len(form) :
                             new_clause_evals[c] /\ ~old_clause_evals[c]}),
         new_unsatisfied |->
             Cardinality({c \in 1..Len(form) :
                             ~new_clause_evals[c] /\ old_clause_evals[c]}),
         variable_evaluation |-> restored]

RECURSIVE Pow(_, _)
Pow(b, e) == IF e = 0 THEN 1 ELSE b * Pow(b, e - 1)

\* f: the score make ** cm / (0.00000000000001 + break ** cb), kept as its
\* numerator and the break ** cb of its denominator
f(variable_evaluation, variable, hlp, cm_, cb_) ==
    LET changes == satisfaction_changes_on_flip(hlp[variable], variable_evaluation,
                                                variable)
    IN  [num |-> Pow(changes.new_satisfied, cm_),
         den |-> Pow(changes.new_unsatisfied, cb_)]

\* the scores of the literals of the chosen clause
clause_scores(clause, variable_evaluation, hlp, cm_, cb_) ==
    [j \in 1..Len(clause) |-> f(variable_evaluation, clause[j], hlp, cm_, cb_)]

\* `satisfied_count >= best_satisfied_count`, in _do_randsat_try and in randsat
randsat_replaces_best(count, best) == count >= best

\* sum(probabilities) is 0.0 exactly when no score is positive
sum_is_zero(scores) == \A j \in 1..Len(scores) : scores[j].num = 0

\* numpy.random.choice(clause, 1, p=probabilities): the values it can return,
\* those of positive probability.  It draws from numpy's global generator,
\* which random.seed does not seed.
numpy_random_choice(clause, probabilities) ==
    {clause[j] : j \in {i \in 1..Len(clause) : probabilities[i].num > 0}}

---------------------------------------------------------------------------
\* The list objects.  Assigning a new list to a Configuration takes the
\* first cell no Configuration refers to; a cell nothing refers to is empty.

NewList(live) ==
    CHOOSE id \in 1..MaxLists :
        /\ id \notin live
        /\ \A other \in 1..MaxLists : other \notin live => id <= other

Store(hp, live) == [id \in 1..MaxLists |-> IF id \in live THEN hp[id] ELSE <<>>]

\* from_config without the deepcopy: self shares other's list
from_config_aliasing(hp, live, other) == [heap |-> hp, ref |-> other]

\* Configuration.from_config: deepcopy of other's list (None stays None);
\* the heap with the copy in it and the reference self.variable_evaluation gets
from_config(hp, live, other) ==
    IF other = 0 THEN [heap |-> hp, ref |-> 0]
    ELSE LET id == NewList(live)
         IN  [heap |-> [hp EXCEPT ![id] = hp[other]], ref |-> id]

\* pysat's Solver.solve(assumptions): some total assignment that agrees with
\* the assumptions satisfies every clause
solve(form, n, assumptions) ==
    \E is_true \in [1..n -> BOOLEAN] :
        /\ \A k \in 1..Len(assumptions) :
               is_true[abs(assumptions[k])] = (assumptions[k] > 0)
        /\ \A c \in 1..Len(form) :
               \E j \in 1..Len(form[c]) : is_true[abs(form[c][j])] = (form[c][j] > 0)

---------------------------------------------------------------------------
\* The inputs: a CNF over nv variables, and the run's configuration.

\* Every CNF with at most two variables, two clauses and two literals per
\* clause: the empty clause, repeated literals and both polarities of a
\* variable in one clause included.
VariableCounts == {1, 2}

Clauses(n) == UNION {[1..k -> Literals(n)] : k \in {0, 1, 2}}

Formulas(n) == UNION {[1..m -> Clauses(n)] : m \in {0, 1, 2}}

\* Some CNFs over three variables, with clauses of three literals.
LargerFormulas ==
    { << <<1, 2, 3>>, <<-1, -2>>, <<-3>> >>,
      << <<1, -2>>, <<2, -3>>, <<3, -1>> >>,
      << <<-1, -2, -3>>, <<1>>, <<2>>, <<3>> >> }

\* the pairs (formula.nv, formula) a run is started on
Instances ==
    UNION {{<<n, form>> : form \in Formulas(n)} : n \in VariableCounts}
    \cup {<<3, form>> : form \in LargerFormulas}

\* the random-walk rates: 0, the least positive one, and 1
Probabilities == {0, 1, RandResolution}

\* the exponents (cm, cb) of randsat: the default's cm = 0, and cb = 0
Exponents == {<<0, MaxExponent>>, <<MaxExponent, 0>>}

clauses_cnt == Len(formula)

EmptyHeap == [id \in 1..MaxLists |-> <<>>]

\* Gsat.__init__ / the first lines of randsat, for a run of one of `algos`
\* on one of `instances` with budgets among `tries` and `iters`
Construct(algos, instances, tries, iters) ==
    /\ algo \in algos
    /\ \E instance \in instances :
          /\ nv = instance[1]
          /\ formula = instance[2]
    /\ probability \in (IF algo \in {"Gsat", "gsat"} THEN Probabilities ELSE {0})
    /\ \E exponents \in (IF algo = "randsat" THEN Exponents ELSE {<<0, 0>>}) :
          /\ cm = exponents[1]
          /\ cb = exponents[2]
    /\ max_tries \in tries
    /\ max_iters \in iters
    /\ helper = IF algo = "Gsat" THEN FormulaHelper(formula, nv)
                ELSE top_FormulaHelper(formula, nv)
    /\ heap = EmptyHeap
    /\ working_config = 0
    /\ best_config = 0
    /\ best_satisfied_count = 0
    /\ try_best_config = 0
    /\ try_best_satisfied_count = 0
    /\ counts_of_satisfied_literals = <<>>
    /\ solved = FALSE
    /\ satisfied_count = 0
    /\ try_no = 0
    /\ iter_no = 0
    /\ iteration_count = 0
    /\ r = 0
    /\ branch = "none"
    /\ flip_count = 0
    /\ try_flip_count = 0
    /\ inspection_count = 0
    /\ try_inspection_count = 0
    /\ scoring_i = 0
    /\ scoring_best_flips = <<>>
    /\ scoring_pair = 0
    /\ scoring_change = 0
    /\ pc = "start_try"

Init == Construct({"Gsat", "randsat"}, Instances, {1, MaxTries}, {1, MaxIters})

---------------------------------------------------------------------------
\* src/sat/gsat.py: Gsat.run and Gsat._do_gsat_try.

\* _do_gsat_try up to its loop: set_random and the full count
GsatStartTry ==
    /\ algo = "Gsat"
    /\ pc = "start_try"
    /\ \E is_true \in [1..nv -> BOOLEAN] :
          LET id == NewList({working_config, best_config})
              lst == set_random(nv, is_true)
          IN  /\ working_config' = id
              /\ heap' = Store([heap EXCEPT ![id] = lst], {id, best_config})
              /\ counts_of_satisfied_literals' =
                     calculate_counts_of_satisfied_literals(formula, lst)
    /\ iter_no' = 0
    /\ pc' = "inspect"
    /\ UNCHANGED scoring
    /\ UNCHANGED <<inputs, best_config, best_satisfied_count, try_best_config,
                   try_best_satisfied_count, solved, satisfied_count, try_no,
                   iteration_count>>
    /\ r' = 0
    /\ branch' = "none"
    /\ try_flip_count' = 0
    /\ try_inspection_count' = 0
    /\ UNCHANGED <<flip_count, inspection_count>>

\* the head of the loop body: the unsatisfied clauses, the best so far, solved
GsatInspect ==
    /\ algo = "Gsat"
    /\ pc = "inspect"
    /\ LET unsatisfied_clauses ==
               get_unsatisfied_clauses(formula, counts_of_satisfied_literals)
           count == clauses_cnt - Len(unsatisfied_clauses)
           copy == from_config(heap, {working_config, best_config}, working_config)
       IN  /\ IF replaces_best(count, best_satisfied_count)
              THEN /\ best_satisfied_count' = count
                   /\ best_config' = copy.ref
                   /\ heap' = Store(copy.heap, {working_config, copy.ref})
              ELSE UNCHANGED <<best_satisfied_count, best_config, heap>>
           /\ IF Len(unsatisfied_clauses) = 0
              THEN solved' = TRUE /\ pc' = "try_done"
              ELSE solved' = solved /\ pc' = "flip"
    /\ UNCHANGED scoring
    /\ UNCHANGED <<inputs, working_config, try_best_config,
                   try_best_satisfied_count, counts_of_satisfied_literals,
                   satisfied_count, try_no, iter_no, iteration_count>>
    /\ r' = 0
    /\ branch' = "none"
    /\ inspection_count' = inspection_count + 1
    /\ try_inspection_count' = try_inspection_count + 1
    /\ UNCHANGED <<flip_count, try_flip_count>>

\* the loop going on while iter_no <= max_iters: one iteration too many
GsatFlip_one_more(variable) ==
    LET flipped == Gsat_flip_variable(heap[working_config],
                                      counts_of_satisfied_literals, helper, variable)
    IN  /\ heap' = [heap EXCEPT ![working_config] = flipped.variable_evaluation]
        /\ counts_of_satisfied_literals' = flipped.counts
        /\ flip_count' = flip_count + 1
        /\ try_flip_count' = try_flip_count + 1
        /\ UNCHANGED <<inspection_count, try_inspection_count>>
        /\ IF iter_no < max_iters
           THEN iter_no' = iter_no + 1 /\ pc' = "inspect"
           ELSE iter_no' = iter_no /\ pc' = "try_done"

\* self.flip_variable(variable) and the step of `for iter_no in range(max_iters)`
GsatFlip(variable) ==
    LET flipped == Gsat_flip_variable(heap[working_config],
                                      counts_of_satisfied_literals, helper, variable)
    IN  /\ heap' = [heap EXCEPT ![working_config] = flipped.variable_evaluation]
        /\ counts_of_satisfied_literals' = flipped.counts
        /\ flip_count' = flip_count + 1
        /\ try_flip_count' = try_flip_count + 1
        /\ UNCHANGED <<inspection_count, try_inspection_count>>
        /\ IF iter_no + 1 < max_iters
           THEN iter_no' = iter_no + 1 /\ pc' = "inspect"
           ELSE iter_no' = iter_no /\ pc' = "try_done"

\* the branch `random.random() <= self.probability`
GsatRandomWalkStep ==
    /\ algo = "Gsat"
    /\ pc = "flip"
    /\ \E drawn \in 0..(RandResolution - 1) :
          /\ is_random_step(drawn, probability)
          /\ r' = drawn
    /\ branch' = "walk"
    /\ LET unsatisfied_clauses ==
               get_unsatisfied_clauses(formula, counts_of_satisfied_literals)
       IN  \E k \in 1..Len(unsatisfied_clauses) :
              IF unsatisfied_clauses[k] = <<>>
              THEN \* random.choice of an empty clause raises IndexError
                   /\ pc' = "error"
                   /\ UNCHANGED <<heap, counts_of_satisfied_literals, iter_no,
                                  flip_count, try_flip_count,
                                  inspection_count, try_inspection_count>>
              ELSE \E j \in 1..Len(unsatisfied_clauses[k]) :
                      GsatFlip(unsatisfied_clauses[k][j])
    /\ UNCHANGED scoring
    /\ UNCHANGED <<inputs, working_config, best_config, best_satisfied_count,
                   try_best_config, try_best_satisfied_count, solved,
                   satisfied_count, try_no, iteration_count>>

\* the else branch flipping only when the chosen variable improves the count
GsatGreedyStep_only_improving ==
    /\ algo = "Gsat"
    /\ pc = "flip"
    /\ \E drawn \in 0..(RandResolution - 1) :
          /\ ~is_random_step(drawn, probability)
          /\ r' = drawn
    /\ branch' = "greedy"
    /\ LET best_flips == get_best_flips(helper, counts_of_satisfied_literals,
                                        heap[working_config], nv, clauses_cnt)
       IN  IF Len(best_flips) = 0
           THEN /\ pc' = "error"
                /\ UNCHANGED <<heap, counts_of_satisfied_literals, iter_no,
                               flip_count, try_flip_count,
                               inspection_count, try_inspection_count>>
           ELSE \E k \in 1..Len(best_flips) :
                   IF sat_change_if_fliped(helper, counts_of_satisfied_literals,
                                           heap[working_config], best_flips[k]) > 0
                   THEN GsatFlip(best_flips[k])
                   ELSE /\ IF iter_no + 1 < max_iters
                           THEN iter_no' = iter_no + 1 /\ pc' = "inspect"
                           ELSE iter_no' = iter_no /\ pc' = "try_done"
                        /\ UNCHANGED <<heap, counts_of_satisfied_literals,
                                       flip_count, try_flip_count,
                                       inspection_count, try_inspection_count>>
    /\ UNCHANGED scoring
    /\ UNCHANGED <<inputs, working_config, best_config, best_satisfied_count,
                   try_best_config, try_best_satisfied_count, solved,
                   satisfied_count, try_no, iteration_count>>

\* the else branch: one of _get_best_flips()
GsatGreedyStep ==
    /\ algo = "Gsat"
    /\ pc = "flip"
    /\ \E drawn \in 0..(RandResolution - 1) :
          /\ ~is_random_step(drawn, probability)
          /\ r' = drawn
    /\ branch' = "greedy"
    /\ LET best_flips == get_best_flips(helper, counts_of_satisfied_literals,
                                        heap[working_config], nv, clauses_cnt)
       IN  IF Len(best_flips) = 0
           THEN \* assert len(best_flips) != 0
                /\ pc' = "error"
                /\ UNCHANGED <<heap, counts_of_satisfied_literals, iter_no,
                               flip_count, try_flip_count, inspection_count, try_inspection_count>>
           ELSE \E k \in 1..Len(best_flips) : GsatFlip(best_flips[k])
    /\ UNCHANGED scoring
    /\ UNCHANGED <<inputs, working_config, best_config, best_satisfied_count,
                   try_best_config, try_best_satisfied_count, solved,
                   satisfied_count, try_no, iteration_count>>

---------------------------------------------------------------------------
\* The else branch statement by statement: _get_best_flips() calling
\* sat_change_if_fliped(i) for i = 1 .. nv, one (clause, clause_index) pair
\* of helper[i] a step, then the choice among best_flips and the flip.

\* what the steps of the scoring neither read for writing nor write
scored == <<inputs, working_config, best_config, best_satisfied_count,
            try_best_config, try_best_satisfied_count, solved,
            satisfied_count, try_no, iter_no, iteration_count, flip_count,
            try_flip_count, inspection_count, try_inspection_count>>

\* one pass of the loop body of sat_change_if_fliped: what it adds to change
sat_change_of_pair(pair, counts, variable_evaluation, variable_name) ==
    IF PyGet(counts, pair[2]) = 0 THEN 1
    ELSE IF PyGet(counts, pair[2]) = 1
            /\ \E j \in 1..Len(pair[1]) :
                  /\ abs(pair[1][j]) = variable_name
                  /\ evaluate_variable(variable_evaluation, pair[1][j])
         THEN -1
         ELSE 0

\* the draw that takes the else branch, and the first lines of _get_best_flips
GsatGreedyBegin ==
    /\ algo = "Gsat"
    /\ pc = "flip"
    /\ \E drawn \in 0..(RandResolution - 1) :
          /\ ~is_random_step(drawn, probability)
          /\ r' = drawn
    /\ branch' = "greedy"
    /\ scoring_i' = 1
    /\ scoring_best_flips' = <<>>
    /\ scoring_pair' = 0
    /\ scoring_change' = 0
    /\ pc' = "score"
    /\ UNCHANGED <<scored, heap, counts_of_satisfied_literals>>

\* the scoring probing the flip in the working assignment itself
GsatScoreClause_probing ==
    /\ algo = "Gsat"
    /\ pc = "score"
    /\ scoring_pair < Len(helper[scoring_i])
    /\ scoring_change' = scoring_change
           + sat_change_of_pair(helper[scoring_i][scoring_pair + 1],
                                counts_of_satisfied_literals,
                                heap[working_config], scoring_i)
    /\ scoring_pair' = scoring_pair + 1
    /\ heap' = [heap EXCEPT ![working_config] = flip_variable(@, scoring_i)]
    /\ UNCHANGED <<scored, counts_of_satisfied_literals, scoring_i,
                   scoring_best_flips, r, branch, pc>>

\* sat_change_if_fliped(i): one pair of self.helper[variable_name]
GsatScoreClause ==
    /\ algo = "Gsat"
    /\ pc = "score"
    /\ scoring_pair < Len(helper[scoring_i])
    /\ scoring_change' = scoring_change
           + sat_change_of_pair(helper[scoring_i][scoring_pair + 1],
                                counts_of_satisfied_literals,
                                heap[working_config], scoring_i)
    /\ scoring_pair' = scoring_pair + 1
    /\ UNCHANGED <<scored, heap, counts_of_satisfied_literals, scoring_i,
                   scoring_best_flips, r, branch, pc>>

\* sat_change_if_fliped(i) returns; the comparison with best_change, which
\* is -clauses_cnt throughout, and the next i
GsatScoreReturn ==
    /\ algo = "Gsat"
    /\ pc = "score"
    /\ scoring_pair = Len(helper[scoring_i])
    /\ scoring_best_flips' =
           IF scoring_change = -clauses_cnt
           THEN Append(scoring_best_flips, scoring_i)
           ELSE IF scoring_change > -clauses_cnt THEN <<scoring_i>>
           ELSE scoring_best_flips
    /\ scoring_i' = scoring_i + 1
    /\ scoring_pair' = 0
    /\ scoring_change' = 0
    /\ pc' = IF scoring_i + 1 > nv THEN "choose" ELSE "score"
    /\ UNCHANGED <<scored, heap, counts_of_satisfied_literals, r, branch>>

\* the assertion, random.choice(best_flips) and the flip
GsatGreedyChoose ==
    /\ algo = "Gsat"
    /\ pc = "choose"
    /\ IF Len(scoring_best_flips) = 0
       THEN \* assert len(best_flips) != 0
            /\ pc' = "error"
            /\ UNCHANGED <<heap, counts_of_satisfied_literals, iter_no,
                           flip_count, try_flip_count, inspection_count,
                           try_inspection_count>>
       ELSE \E k \in 1..Len(scoring_best_flips) :
               GsatFlip(scoring_best_flips[k])
    /\ scoring_i' = 0
    /\ scoring_best_flips' = <<>>
    /\ scoring_pair' = 0
    /\ scoring_change' = 0
    /\ UNCHANGED <<inputs, working_config, best_config, best_satisfied_count,
                   try_best_config, try_best_satisfied_count, solved,
                   satisfied_count, try_no, iteration_count, r, branch>>

\* Gsat.run without its `if self.solved: break`
GsatEndTry_without_break ==
    /\ algo = "Gsat"
    /\ pc = "try_done"
    /\ IF try_no + 1 >= max_tries
       THEN try_no' = try_no /\ pc' = "verify"
       ELSE try_no' = try_no + 1 /\ pc' = "start_try"
    /\ UNCHANGED scoring
    /\ UNCHANGED <<inputs, heap, working_config, best_config, best_satisfied_count,
                   try_best_config, try_best_satisfied_count,
                   counts_of_satisfied_literals, solved, satisfied_count,
                   iter_no, iteration_count, r, branch, flip_count,
                   try_flip_count,
                   inspection_count, try_inspection_count>>

\* Gsat.run after _do_gsat_try returns: break when solved, else the next try
GsatEndTry ==
    /\ algo = "Gsat"
    /\ pc = "try_done"
    /\ IF solved \/ try_no + 1 >= max_tries
       THEN try_no' = try_no /\ pc' = "verify"
       ELSE try_no' = try_no + 1 /\ pc' = "start_try"
    /\ UNCHANGED scoring
    /\ UNCHANGED <<inputs, heap, working_config, best_config, best_satisfied_count,
                   try_best_config, try_best_satisfied_count,
                   counts_of_satisfied_literals, solved, satisfied_count,
                   iter_no, iteration_count, r, branch, flip_count,
                   try_flip_count,
                   inspection_count, try_inspection_count>>

\* the count without the + 1 that turns the last index into a number
GsatVerify_counting_index ==
    /\ algo = "Gsat"
    /\ pc = "verify"
    /\ IF solve(formula, nv, get_evaluation(heap[best_config], nv)) = solved
       THEN /\ iteration_count' = try_no * max_iters + iter_no
            /\ pc' = "done"
       ELSE /\ iteration_count' = iteration_count
            /\ pc' = "assert_failed"
    /\ UNCHANGED scoring
    /\ UNCHANGED <<inputs, heap, working_config, best_config, best_satisfied_count,
                   try_best_config, try_best_satisfied_count,
                   counts_of_satisfied_literals, solved, satisfied_count,
                   try_no, iter_no, r, branch, flip_count, try_flip_count,
                   inspection_count, try_inspection_count>>

\* the oracle's assertion, then the iteration count of the returned tuple
GsatVerify ==
    /\ algo = "Gsat"
    /\ pc = "verify"
    /\ IF solve(formula, nv, get_evaluation(heap[best_config], nv)) = solved
       THEN /\ iteration_count' = try_no * max_iters + iter_no + 1
            /\ pc' = "done"
       ELSE /\ iteration_count' = iteration_count
            /\ pc' = "assert_failed"
    /\ UNCHANGED scoring
    /\ UNCHANGED <<inputs, heap, working_config, best_config, best_satisfied_count,
                   try_best_config, try_best_satisfied_count,
                   counts_of_satisfied_literals, solved, satisfied_count,
                   try_no, iter_no, r, branch, flip_count, try_flip_count,
                   inspection_count, try_inspection_count>>

---------------------------------------------------------------------------
\* src/randsat.py: randsat and _do_randsat_try.

\* _do_randsat_try up to its loop: a new config, set at random, and a new
\* best_config of the trial
RandsatStartTry ==
    /\ algo = "randsat"
    /\ pc = "start_try"
    /\ \E is_true \in [1..nv -> BOOLEAN] :
          LET id == NewList({best_config})
          IN  /\ working_config' = id
              /\ heap' = Store([heap EXCEPT ![id] = top_set_random(nv, is_true)],
                               {id, best_config})
    /\ try_best_config' = 0
    /\ try_best_satisfied_count' = 0
    /\ iter_no' = 0
    /\ pc' = "inspect"
    /\ UNCHANGED scoring
    /\ UNCHANGED <<inputs, best_config, best_satisfied_count,
                   counts_of_satisfied_literals, solved, satisfied_count, try_no,
                   iteration_count>>
    /\ r' = 0
    /\ branch' = "none"
    /\ try_flip_count' = 0
    /\ try_inspection_count' = 0
    /\ UNCHANGED <<flip_count, inspection_count>>

\* the head of the loop body of _do_randsat_try
RandsatInspect ==
    /\ algo = "randsat"
    /\ pc = "inspect"
    /\ LET unsatisfied_clauses ==
               top_get_unsatisfied_clauses(formula, heap[working_config])
           count == clauses_cnt - Len(unsatisfied_clauses)
           live == {working_config, try_best_config, best_config}
           copy == from_config(heap, live, working_config)
       IN  /\ IF randsat_replaces_best(count, try_best_satisfied_count)
              THEN /\ try_best_satisfied_count' = count
                   /\ try_best_config' = copy.ref
                   /\ heap' = Store(copy.heap, {working_config, copy.ref, best_config})
              ELSE UNCHANGED <<try_best_satisfied_count, try_best_config, heap>>
           /\ pc' = IF Len(unsatisfied_clauses) = 0 THEN "try_done" ELSE "flip"
    /\ UNCHANGED scoring
    /\ UNCHANGED <<inputs, working_config, best_config, best_satisfied_count,
                   counts_of_satisfied_literals, solved, satisfied_count, try_no,
                   iter_no, iteration_count>>
    /\ r' = 0
    /\ branch' = "none"
    /\ inspection_count' = inspection_count + 1
    /\ try_inspection_count' = try_inspection_count + 1
    /\ UNCHANGED <<flip_count, try_flip_count>>

\* the choice of the clause, the scores, the sampled variable and its flip
RandsatFlip ==
    /\ algo = "randsat"
    /\ pc = "flip"
    /\ branch' = "sample"
    /\ LET unsatisfied_clauses ==
               top_get_unsatisfied_clauses(formula, heap[working_config])
       IN  \E k \in 1..Len(unsatisfied_clauses) :
              LET clause == unsatisfied_clauses[k]
                  probabilities == clause_scores(clause, heap[working_config],
                                                 helper, cm, cb)
              IN  IF clause = <<>> \/ sum_is_zero(probabilities)
                  THEN \* numpy refuses an empty list; p / sum_probs divides by zero
                       /\ pc' = "error"
                       /\ UNCHANGED <<heap, iter_no, flip_count, try_flip_count,
                                      inspection_count, try_inspection_count>>
                  ELSE \E variable \in numpy_random_choice(clause, probabilities) :
                          /\ heap' = [heap EXCEPT ![working_config] =
                                         top_flip_variable(@, variable)]
                          /\ flip_count' = flip_count + 1
                          /\ try_flip_count' = try_flip_count + 1
                          /\ UNCHANGED <<inspection_count, try_inspection_count>>
                          /\ IF iter_no + 1 < max_iters
                             THEN iter_no' = iter_no + 1 /\ pc' = "inspect"
                             ELSE iter_no' = iter_no /\ pc' = "try_done"
    /\ UNCHANGED scoring
    /\ UNCHANGED <<inputs, working_config, best_config, best_satisfied_count,
                   try_best_config, try_best_satisfied_count,
                   counts_of_satisfied_literals, solved, satisfied_count, try_no,
                   iteration_count, r>>

\* randsat after _do_randsat_try returns the trial's best_config as config
RandsatEndTry ==
    /\ algo = "randsat"
    /\ pc = "try_done"
    /\ LET unsatisfied_clauses ==
               top_get_unsatisfied_clauses(formula, heap[try_best_config])
           count == clauses_cnt - Len(unsatisfied_clauses)
           live == {try_best_config, best_config}
           copy == from_config(heap, live, try_best_config)
       IN  /\ solved' = (Len(unsatisfied_clauses) = 0)
           /\ satisfied_count' = count
           /\ IF randsat_replaces_best(count, best_satisfied_count)
              THEN /\ best_satisfied_count' = count
                   /\ best_config' = copy.ref
                   /\ heap' = Store(copy.heap, {try_best_config, copy.ref})
              ELSE /\ UNCHANGED <<best_satisfied_count, best_config>>
                   /\ heap' = Store(heap, live)
           /\ IF solved' \/ try_no + 1 >= max_tries
              THEN try_no' = try_no /\ pc' = "verify"
              ELSE try_no' = try_no + 1 /\ pc' = "start_try"
    /\ working_config' = 0
    /\ UNCHANGED scoring
    /\ UNCHANGED <<inputs, try_best_config, try_best_satisfied_count,
                   counts_of_satisfied_literals, iter_no, iteration_count, r,
                   branch, flip_count, try_flip_count, inspection_count, try_inspection_count>>

\* the flip count of the summary line, then the oracle's assertion
RandsatVerify ==
    /\ algo = "randsat"
    /\ pc = "verify"
    /\ iteration_count' = try_no * max_iters + iter_no + 1
    /\ pc' = IF solve(formula, nv, heap[best_config]) = solved
             THEN "done" ELSE "assert_failed"
    /\ UNCHANGED scoring
    /\ UNCHANGED <<inputs, heap, working_config, best_config, best_satisfied_count,
                   try_best_config, try_best_satisfied_count,
                   counts_of_satisfied_literals, solved, satisfied_count,
                   try_no, iter_no, r, branch, flip_count, try_flip_count,
                   inspection_count, try_inspection_count>>

---------------------------------------------------------------------------
\* src/gsat.py: the functions gsat, _do_gsat_try and _get_best_flips, on the
\* Configuration, FormulaHelper and get_unsatisfied_clausules of that file,
\* which are those of src/sat.py line for line.

RECURSIVE gsat_best_flips_loop(_, _, _, _, _, _)
\* the loop of _get_best_flips from variable i on: the change in the number
\* of unsatisfied clauses of helper[i], probed by flipping i and flipping it
\* back; best_change is the local of that name, which the loop never assigns
gsat_best_flips_loop(i, n, best_change, best_flips, hlp, variable_evaluation) ==
    IF i > n THEN [best_flips |-> best_flips, variable_evaluation |-> variable_evaluation]
    ELSE LET orig_unsat_clauses_of_var ==
                 Len(top_get_unsatisfied_clauses(hlp[i], variable_evaluation))
             probed == top_flip_variable(variable_evaluation, i)
             new_unsat_clauses_of_var ==
                 Len(top_get_unsatisfied_clauses(hlp[i], probed))
             restored == top_flip_variable(probed, i)
             change == new_unsat_clauses_of_var - orig_unsat_clauses_of_var
         IN  gsat_best_flips_loop(i + 1, n, best_change,
                                  IF change = best_change THEN Append(best_flips, i)
                                  ELSE IF change < best_change THEN <<i>>
                                  ELSE best_flips,
                                  hlp, restored)

\* _get_best_flips(formula, config, helper): best_flips, and the list of
\* config as the probing leaves it
gsat_get_best_flips(form, variable_evaluation, hlp, n) ==
    gsat_best_flips_loop(1, n, Len(form), <<>>, hlp, variable_evaluation)

\* _do_gsat_try up to its loop
gsat_start_try ==
    /\ algo = "gsat"
    /\ pc = "start_try"
    /\ \E is_true \in [1..nv -> BOOLEAN] :
          LET id == NewList({best_config})
          IN  /\ working_config' = id
              /\ heap' = Store([heap EXCEPT ![id] = top_set_random(nv, is_true)],
                               {id, best_config})
    /\ try_best_config' = 0
    /\ try_best_satisfied_count' = 0
    /\ iter_no' = 0
    /\ pc' = "inspect"
    /\ r' = 0
    /\ branch' = "none"
    /\ try_flip_count' = 0
    /\ try_inspection_count' = 0
    /\ UNCHANGED <<inputs, scoring, best_config, best_satisfied_count,
                   counts_of_satisfied_literals, solved, satisfied_count, try_no,
                   iteration_count, flip_count, inspection_count>>

\* the head of the loop body of _do_gsat_try
gsat_inspect ==
    /\ algo = "gsat"
    /\ pc = "inspect"
    /\ LET unsatisfied_clauses ==
               top_get_unsatisfied_clauses(formula, heap[working_config])
           count == Len(formula) - Len(unsatisfied_clauses)
           live == {working_config, try_best_config, best_config}
           copy == from_config(heap, live, working_config)
       IN  /\ IF count >= try_best_satisfied_count
              THEN /\ try_best_satisfied_count' = count
                   /\ try_best_config' = copy.ref
                   /\ heap' = Store(copy.heap, {working_config, copy.ref, best_config})
              ELSE UNCHANGED <<try_best_satisfied_count, try_best_config, heap>>
           /\ pc' = IF Len(unsatisfied_clauses) = 0 THEN "try_done" ELSE "flip"
    /\ r' = 0
    /\ branch' = "none"
    /\ inspection_count' = inspection_count + 1
    /\ try_inspection_count' = try_inspection_count + 1
    /\ UNCHANGED <<inputs, scoring, working_config, best_config,
                   best_satisfied_count, counts_of_satisfied_literals, solved,
                   satisfied_count, try_no, iter_no, iteration_count, flip_count,
                   try_flip_count>>

\* config.flip_variable(variable) on the list `lst` the step left, and the
\* step of `for iter_no in range(max_iters)`
gsat_flip(lst, variable) ==
    /\ heap' = [heap EXCEPT ![working_config] = top_flip_variable(lst, variable)]
    /\ flip_count' = flip_count + 1
    /\ try_flip_count' = try_flip_count + 1
    /\ IF iter_no + 1 < max_iters
       THEN iter_no' = iter_no + 1 /\ pc' = "inspect"
       ELSE iter_no' = iter_no /\ pc' = "try_done"

\* the branch `random.random() <= probability`
gsat_random_walk_step ==
    /\ algo = "gsat"
    /\ pc = "flip"
    /\ \E drawn \in 0..(RandResolution - 1) :
          /\ drawn <= probability
          /\ r' = drawn
    /\ branch' = "walk"
    /\ LET unsatisfied_clauses ==
               top_get_unsatisfied_clauses(formula, heap[working_config])
       IN  \E k \in 1..Len(unsatisfied_clauses) :
              IF unsatisfied_clauses[k] = <<>>
              THEN \* random.choice of an empty clause raises IndexError
                   /\ pc' = "error"
                   /\ UNCHANGED <<heap, iter_no, flip_count, try_flip_count>>
              ELSE \E j \in 1..Len(unsatisfied_clauses[k]) :
                      gsat_flip(heap[working_config], unsatisfied_clauses[k][j])
    /\ UNCHANGED <<inputs, scoring, working_config, best_config,
                   best_satisfied_count, try_best_config,
                   try_best_satisfied_count, counts_of_satisfied_literals, solved,
                   satisfied_count, try_no, iteration_count, inspection_count,
                   try_inspection_count>>

\* the else branch: one of _get_best_flips(formula, config, helper)
gsat_greedy_step ==
    /\ algo = "gsat"
    /\ pc = "flip"
    /\ \E drawn \in 0..(RandResolution - 1) :
          /\ ~(drawn <= probability)
          /\ r' = drawn
    /\ branch' = "greedy"
    /\ LET got == gsat_get_best_flips(formula, heap[working_config], helper, nv)
       IN  IF Len(got.best_flips) = 0
           THEN \* assert len(best_flips) != 0
                /\ pc' = "error"
                /\ heap' = [heap EXCEPT ![working_config] = got.variable_evaluation]
                /\ UNCHANGED <<iter_no, flip_count, try_flip_count>>
           ELSE \E k \in 1..Len(got.best_flips) :
                   gsat_flip(got.variable_evaluation, got.best_flips[k])
    /\ UNCHANGED <<inputs, scoring, working_config, best_config,
                   best_satisfied_count, try_best_config,
                   try_best_satisfied_count, counts_of_satisfied_literals, solved,
                   satisfied_count, try_no, iteration_count, inspection_count,
                   try_inspection_count>>

\* gsat after _do_gsat_try returns the trial's best_config as config
gsat_end_try ==
    /\ algo = "gsat"
    /\ pc = "try_done"
    /\ LET unsatisfied_clausules ==
               top_get_unsatisfied_clauses(formula, heap[try_best_config])
           count == Len(formula) - Len(unsatisfied_clausules)
           live == {try_best_config, best_config}
           copy == from_config(heap, live, try_best_config)
       IN  /\ solved' = (Len(unsatisfied_clausules) = 0)
           /\ satisfied_count' = count
           /\ IF count >= best_satisfied_count
              THEN /\ best_satisfied_count' = count
                   /\ best_config' = copy.ref
                   /\ heap' = Store(copy.heap, {try_best_config, copy.ref})
              ELSE /\ UNCHANGED <<best_satisfied_count, best_config>>
                   /\ heap' = Store(heap, live)
           /\ IF solved' \/ try_no + 1 >= max_tries
              THEN try_no' = try_no /\ pc' = "verify"
              ELSE try_no' = try_no + 1 /\ pc' = "start_try"
    /\ working_config' = 0
    /\ UNCHANGED <<inputs, scoring, try_best_config, try_best_satisfied_count,
                   counts_of_satisfied_literals, iter_no, iteration_count, r,
                   branch, flip_count, try_flip_count, inspection_count,
                   try_inspection_count>>

\* the iteration count of the summary line, then the oracle's assertion on
\* config, the last trial's result
gsat_verify ==
    /\ algo = "gsat"
    /\ pc = "verify"
    /\ iteration_count' = try_no * max_iters + iter_no + 1
    /\ pc' = IF solve(formula, nv, heap[try_best_config]) = solved
             THEN "done" ELSE "assert_failed"
    /\ UNCHANGED <<inputs, scoring, heap, working_config, best_config,
                   best_satisfied_count, try_best_config,
                   try_best_satisfied_count, counts_of_satisfied_literals, solved,
                   satisfied_count, try_no, iter_no, r, branch, flip_count,
                   try_flip_count, inspection_count, try_inspection_count>>

---------------------------------------------------------------------------

Next ==
    \/ GsatStartTry
    \/ GsatInspect
    \/ GsatRandomWalkStep
    \/ GsatGreedyStep
    \/ GsatEndTry
    \/ GsatVerify
    \/ RandsatStartTry
    \/ RandsatInspect
    \/ RandsatFlip
    \/ RandsatEndTry
    \/ RandsatVerify

Spec == Init /\ [][Next]_vars

---------------------------------------------------------------------------
\* What an assignment means, independently of the code that evaluates it.

\* the truth values a list of src/sat/sat.py gives the variables 1..nv
Assignment(variable_evaluation) ==
    [i \in 1..nv |-> PyGet(variable_evaluation, i) > 0]

\* the truth values a list of src/sat.py gives them
TopAssignment(variable_evaluation) ==
    [i \in 1..nv |-> variable_evaluation[i] > 0]

LiteralTrue(a, literal) == a[abs(literal)] = (literal > 0)

TrueLiterals(a, clause) ==
    Cardinality({j \in 1..Len(clause) : LiteralTrue(a, clause[j])})

ClauseTrue(a, clause) == \E j \in 1..Len(clause) : LiteralTrue(a, clause[j])

SatisfiedClauses(a) ==
    Cardinality({c \in 1..Len(formula) : ClauseTrue(a, formula[c])})

Flipped(a, v) == [a EXCEPT ![v] = ~@]

\* Gsat holds a working assignment
GsatAssigned == algo = "Gsat" /\ working_config # 0

WorkingAssignment == Assignment(heap[working_config])

\* the net change the code computes for variable v in the current state
NetChange(v) ==
    sat_change_if_fliped(helper, counts_of_satisfied_literals,
                         heap[working_config], v)

BestFlips ==
    get_best_flips(helper, counts_of_satisfied_literals, heap[working_config],
                   nv, clauses_cnt)

---------------------------------------------------------------------------
\* C1: in Gsat, after the full count at the start of a trial and after every
\* flip_variable, counts_of_satisfied_literals has one entry per clause and
\* each entry is the number of literals of its clause that are true under
\* the working assignment; the entry is 0 exactly when the clause is
\* unsatisfied.
C1_TrackerCorrect ==
    GsatAssigned =>
        /\ Len(counts_of_satisfied_literals) = Len(formula)
        /\ \A c \in 1..Len(formula) :
              /\ counts_of_satisfied_literals[c] =
                     TrueLiterals(WorkingAssignment, formula[c])
              /\ (counts_of_satisfied_literals[c] = 0)
                     <=> ~ClauseTrue(WorkingAssignment, formula[c])

\* a second iteration's inspection point, reached through a flip that left a
\* clause with two true literals and another with none
C1_Witness ==
    /\ GsatAssigned
    /\ pc = "inspect"
    /\ iter_no >= 1
    /\ branch \in {"walk", "greedy"}
    /\ \E c, d \in 1..Len(formula) :
          /\ counts_of_satisfied_literals[c] = 2
          /\ counts_of_satisfied_literals[d] = 0

\* no clause mentions the same variable twice
NoRepeatedVariable ==
    \A c \in 1..Len(formula) : \A j, k \in 1..Len(formula[c]) :
        abs(formula[c][j]) = abs(formula[c][k]) => j = k

NoEmptyClause == \A c \in 1..Len(formula) : formula[c] # <<>>

\* C2: whenever a greedy step can be taken, _get_best_flips() returns exactly
\* the variables of 1..nv whose net change is the maximum over 1..nv (stated
\* for the formulas without an empty clause or a repeated variable, where it
\* already fails).
C2_BestFlipsAreMaximizers ==
    (GsatAssigned /\ pc = "flip" /\ NoEmptyClause /\ NoRepeatedVariable) =>
        Range(BestFlips) =
            {i \in 1..nv : \A j \in 1..nv : NetChange(i) >= NetChange(j)}

\* C3: when no clause mentions a variable twice, sat_change_if_fliped(v) is
\* the number of satisfied clauses after flipping v minus the number before,
\* for every variable v.
C3_NetChangeIsTrueChange ==
    (GsatAssigned /\ NoRepeatedVariable) =>
        \A v \in 1..nv :
            NetChange(v) = SatisfiedClauses(Flipped(WorkingAssignment, v))
                             - SatisfiedClauses(WorkingAssignment)

\* a state in which one variable breaks a clause, another makes one, and a
\* clause with one true literal is not broken by a variable it mentions
C3_Witness ==
    /\ GsatAssigned
    /\ NoRepeatedVariable
    /\ pc = "flip"
    /\ \E v, w \in 1..nv : NetChange(v) < 0 /\ NetChange(w) > 0
    /\ \E c \in 1..Len(formula) : \E j \in 1..Len(formula[c]) :
          /\ counts_of_satisfied_literals[c] = 1
          /\ ~LiteralTrue(WorkingAssignment, formula[c][j])

---------------------------------------------------------------------------
\* the list handed to the oracle: best_config.get_evaluation() in Gsat.run,
\* best_config.variable_evaluation in randsat
OracleInput ==
    IF algo = "Gsat" THEN get_evaluation(heap[best_config], nv)
    ELSE heap[best_config]

\* C4: at the verification step of Gsat.run and of randsat, solved is true
\* if and only if the best assignment handed to the oracle satisfies every
\* clause, and the assertion on the oracle's verdict never fails.
C4_FinalConsistency ==
    /\ pc = "verify" =>
           (solved <=> SatisfiedClauses(TopAssignment(OracleInput)) = Len(formula))
    /\ pc # "assert_failed"

\* a run that reaches the verification unsolved after a trial whose last
\* flip, which no iteration inspected, left a satisfying working assignment
C4_Witness ==
    /\ algo = "Gsat"
    /\ pc = "verify"
    /\ ~solved
    /\ SatisfiedClauses(WorkingAssignment) = Len(formula)

\* C5: over a whole Gsat run, no step decreases best_satisfied_count.
C5_MonotoneBest ==
    [][algo = "Gsat" => best_satisfied_count' >= best_satisfied_count]_vars

\* a later trial has inspected an assignment that satisfies fewer clauses
\* than the best of the run
C5_Witness ==
    /\ GsatAssigned
    /\ try_no >= 1
    /\ pc = "flip"
    /\ SatisfiedClauses(WorkingAssignment) < best_satisfied_count

\* the working assignment of the trial, and the best-so-far record its
\* inspections update: Gsat's fields, the locals of _do_randsat_try
CurrentAssignment ==
    IF algo = "Gsat" THEN Assignment(heap[working_config])
    ELSE TopAssignment(heap[working_config])

TrialBestConfig == IF algo = "Gsat" THEN best_config ELSE try_best_config

TrialBestCount ==
    IF algo = "Gsat" THEN best_satisfied_count ELSE try_best_satisfied_count

ListOf(ref) == IF ref = 0 THEN <<>> ELSE heap[ref]

AssignmentOf(lst) ==
    IF algo = "Gsat" THEN Assignment(lst) ELSE TopAssignment(lst)

\* C6: an inspection step whose satisfied count is at least the best so far
\* (equality included) leaves best_config equal to the working assignment
\* and the best count equal to the number of clauses best_config satisfies;
\* an inspection step with a strictly lower count leaves both unchanged.
C6_TiePolicy ==
    [][pc = "inspect" =>
          IF SatisfiedClauses(CurrentAssignment) >= TrialBestCount
          THEN /\ TrialBestConfig' # 0
               /\ ListOf(TrialBestConfig)' = heap'[working_config']
               /\ heap'[working_config'] = heap[working_config]
               /\ TrialBestCount' = SatisfiedClauses(AssignmentOf(ListOf(TrialBestConfig)'))
          ELSE /\ ListOf(TrialBestConfig)' = ListOf(TrialBestConfig)
               /\ TrialBestCount' = TrialBestCount]_vars

\* on [[1], [-1]] every assignment satisfies one clause, so the second
\* inspection of a trial is a tie; it has replaced the best
C6_Witness ==
    /\ formula = << <<1>>, <<-1>> >>
    /\ pc = "flip"
    /\ iter_no >= 1
    /\ TrialBestCount = 1
    /\ ListOf(TrialBestConfig) = heap[working_config]

\* C7: between two from_config calls the list of best_config does not
\* change: not by the flips of the working assignment, not by the
\* set_random of the next trial.
C7_BestIsIndependentCopy ==
    [][/\ (algo = "Gsat" /\ pc # "inspect") =>
              ListOf(best_config)' = ListOf(best_config)
       /\ (algo = "randsat" /\ pc = "flip") =>
              /\ ListOf(try_best_config)' = ListOf(try_best_config)
              /\ ListOf(best_config)' = ListOf(best_config)]_vars

\* in a later trial, after a flip, the best differs from the working list
\* and satisfies more clauses than it
C7_Witness ==
    /\ GsatAssigned
    /\ try_no >= 1
    /\ iter_no >= 1
    /\ pc = "inspect"
    /\ ListOf(best_config) # heap[working_config]
    /\ best_satisfied_count > SatisfiedClauses(WorkingAssignment)

\* Gsat.flip_variable(variable_name) applied to the current state
FlipOnce(variable_name) ==
    Gsat_flip_variable(heap[working_config], counts_of_satisfied_literals,
                       helper, variable_name)

\* C8: from every reachable state and for every variable or literal v, two
\* flip_variable(v) in a row give back the list of working_config and the
\* counts; in randsat, satisfaction_changes_on_flip leaves the list of the
\* configuration as it found it.
C8_FlipInvolution ==
    /\ GsatAssigned =>
           \A v \in Literals(nv) :
               LET once == FlipOnce(v)
                   twice == Gsat_flip_variable(once.variable_evaluation,
                                               once.counts, helper, v)
               IN  /\ twice.variable_evaluation = heap[working_config]
                   /\ twice.counts = counts_of_satisfied_literals
    /\ (algo = "randsat" /\ working_config # 0) =>
           \A v \in Literals(nv) :
               satisfaction_changes_on_flip(helper[v], heap[working_config], v)
                   .variable_evaluation = heap[working_config]

\* a state reached by a flip, in which one more flip changes the list and
\* the counts
C8_Witness ==
    /\ GsatAssigned
    /\ iter_no >= 1
    /\ branch # "none"
    /\ \E v \in Literals(nv) :
          LET once == FlipOnce(v)
          IN  /\ once.variable_evaluation # heap[working_config]
              /\ once.counts # counts_of_satisfied_literals

\* C9: with probability = 1 no iteration of a Gsat run takes the greedy
\* branch, whatever random.random() returns.
C9_ProbabilityOne ==
    (algo = "Gsat" /\ probability = RandResolution) => branch # "greedy"

\* the largest value random.random() returns still took the random walk
C9_Witness ==
    /\ algo = "Gsat"
    /\ probability = RandResolution
    /\ branch = "walk"
    /\ r = RandResolution - 1

\* C10: with probability = 0 no iteration of a Gsat run takes the
\* random-walk branch and flips a variable of an unsatisfied clause,
\* whatever random.random() returns (0 included).
C10_ProbabilityZero ==
    (algo = "Gsat" /\ probability = 0 /\ pc # "error") => branch # "walk"

---------------------------------------------------------------------------
\* The runs of Gsat alone, on the CNFs over one variable and the larger
\* ones.  A run is a sequential program: while a statement remains, one is
\* executed.
GsatInit ==
    /\ Init
    /\ algo = "Gsat"
    /\ nv \in {1, 3}

GsatNext ==
    \/ GsatStartTry
    \/ GsatInspect
    \/ GsatRandomWalkStep
    \/ GsatGreedyStep
    \/ GsatEndTry
    \/ GsatVerify

GsatSpec == GsatInit /\ [][GsatNext]_vars /\ WF_vars(GsatNext)

\* The runs of the function gsat of src/gsat.py.
gsat_next ==
    \/ gsat_start_try
    \/ gsat_inspect
    \/ gsat_random_walk_step
    \/ gsat_greedy_step
    \/ gsat_end_try
    \/ gsat_verify

\* The runs of both greedy solvers, the class Gsat and the function gsat, on
\* the CNFs over one variable and the larger ones.
GreedyInit ==
    Construct({"Gsat", "gsat"},
              {instance \in Instances : instance[1] \in {1, 3}},
              {1, MaxTries}, {1, MaxIters})

GreedySpec == GreedyInit /\ [][GsatNext \/ gsat_next]_vars

\* The runs of Gsat with the greedy step executed statement by statement.
SteppedNext ==
    \/ GsatStartTry
    \/ GsatInspect
    \/ GsatRandomWalkStep
    \/ GsatGreedyBegin
    \/ GsatScoreClause
    \/ GsatScoreReturn
    \/ GsatGreedyChoose
    \/ GsatEndTry
    \/ GsatVerify

SteppedSpec == GsatInit /\ [][SteppedNext]_vars

\* Gsat.run has returned, or an exception has left it
GsatEnded == pc \in {"done", "error", "assert_failed"}

\* C11: every execution of Gsat.run, whatever the random draws, eventually
\* reaches its end, and at every point it has performed at most
\* max_tries * max_iters flips in total and at most max_iters flips in the
\* current trial.
C11_Termination ==
    /\ [](algo = "Gsat" =>
              /\ flip_count <= max_tries * max_iters
              /\ try_flip_count <= max_iters)
    /\ (algo = "Gsat") => <>GsatEnded

\* a run that used its whole budget: every trial of the largest number of
\* trials performed the largest number of flips, and the run returned
C11_Witness ==
    /\ algo = "Gsat"
    /\ NoEmptyClause
    /\ Len(formula) = 3
    /\ pc = "done"
    /\ max_tries = MaxTries
    /\ max_iters = MaxIters
    /\ try_flip_count = max_iters
    /\ flip_count = max_tries * max_iters

\* C12: in a Gsat run, solved becomes true exactly in an inspection step
\* whose working assignment leaves no clause unsatisfied; and from a state
\* in which solved is true no step flips a variable of the working
\* assignment, starts a trial, or changes best_config or
\* best_satisfied_count, and solved stays true.
C12_EarlyStop ==
    [][algo = "Gsat" =>
          /\ (pc = "inspect"
                 /\ SatisfiedClauses(WorkingAssignment) = Len(formula)) => solved'
          /\ (solved' # solved) =>
                 /\ pc = "inspect"
                 /\ SatisfiedClauses(WorkingAssignment) = Len(formula)
                 /\ solved'
          /\ solved =>
                 /\ solved'
                 /\ flip_count' = flip_count
                 /\ ListOf(working_config)' = ListOf(working_config)
                 /\ counts_of_satisfied_literals' = counts_of_satisfied_literals
                 /\ try_no' = try_no
                 /\ pc' \notin {"start_try", "inspect", "flip"}
                 /\ ListOf(best_config)' = ListOf(best_config)
                 /\ best_satisfied_count' = best_satisfied_count]_vars

\* a run that returned solved after a flip, with a trial not started and a
\* flip of the trial's budget not applied
C12_Witness ==
    /\ algo = "Gsat"
    /\ pc = "done"
    /\ solved
    /\ try_no + 1 < max_tries
    /\ try_flip_count >= 1
    /\ try_flip_count < max_iters

\* C13: the iteration count Gsat.run returns is (index of the final trial)
\* * max_iters + (loop iterations executed in the final trial); that is the
\* number of loop iterations executed over all trials of the run, and it is
\* at most max_tries * max_iters.
C13_IterationAccounting ==
    (algo = "Gsat" /\ pc = "done") =>
        /\ iteration_count = try_no * max_iters + try_inspection_count
        /\ iteration_count = inspection_count
        /\ iteration_count <= max_tries * max_iters

\* a run that returned from a later trial, left before its last iteration
C13_Witness ==
    /\ algo = "Gsat"
    /\ pc = "done"
    /\ try_no >= 1
    /\ try_inspection_count < max_iters
    /\ iteration_count = inspection_count

\* the satisfied count a run reports: the second component of the tuple
\* Gsat.run returns, the third number of the summary line of randsat
ReportedCount ==
    IF algo = "Gsat" THEN best_satisfied_count ELSE satisfied_count

\* the assignment reported with it: best_config of the run
ReportedAssignment == AssignmentOf(ListOf(best_config))

\* C14: at the end of a run of Gsat or of randsat, the satisfied count that
\* is reported is the number of clauses the reported best assignment
\* satisfies, also when the best was found in an earlier trial.
C14_ReportedCountMatches ==
    pc = "done" => ReportedCount = SatisfiedClauses(ReportedAssignment)

\* main seeds Python's `random` alone (random.seed(args.seed)), the generator
\* of set_random and of the choice of the clause: two runs with the same
\* seed and inputs agree on those draws.  What remains open in a step of a
\* trial, once the k-th unsatisfied clause is chosen, are the values the
\* other generator can return.
UnseededOutcomes(k) ==
    LET clause == top_get_unsatisfied_clauses(formula, heap[working_config])[k]
    IN  numpy_random_choice(clause, clause_scores(clause, heap[working_config],
                                                  helper, cm, cb))

\* C15: every randomized choice of a randsat run is drawn from the one
\* seeded stream, so that the seed and the inputs fix the sequence of
\* flips: no step of a trial leaves two variables to flip open to a draw
\* the seed does not fix.
C15_SingleSeededStream ==
    (algo = "randsat" /\ pc = "flip") =>
        \A k \in 1..Len(top_get_unsatisfied_clauses(formula, heap[working_config])) :
            Cardinality(UnseededOutcomes(k)) <= 1

---------------------------------------------------------------------------
\* Scenario A: the runs of Gsat on [[1, 2], [-1, -2]] with at least ten
\* iterations a trial.
ScenarioAInit ==
    Construct({"Gsat"}, {<<2, << <<1, 2>>, <<-1, -2>> >> >>}, {1, MaxTries},
              {10, 11})

ScenarioASpec == ScenarioAInit /\ [][GsatNext]_vars

\* C16: on [[1, 2], [-1, -2]] with max_iters >= 10, every run of Gsat that
\* ends with solved = true returns the satisfied count 2 and a best
\* assignment that is [1, -2] or [-1, 2] (that some run does is the
\* witness).
C16_ScenarioA ==
    (pc = "done" /\ solved) =>
        /\ best_satisfied_count = 2
        /\ get_evaluation(heap[best_config], nv) \in {<<1, -2>>, <<-1, 2>>}

\* a trial that started with a clause unsatisfied reached solved = true by
\* a flip, and the run returned
C16_Witness ==
    /\ pc = "done"
    /\ solved
    /\ try_flip_count >= 1
    /\ max_iters >= 10

---------------------------------------------------------------------------
\* a run of Gsat on the unsatisfiable [[1], [-1]] over one variable
ScenarioB == algo = "Gsat" /\ nv = 1 /\ formula = << <<1>>, <<-1>> >>

\* C17: on [[1], [-1]] (N = 1), for every budget, every probability and
\* every outcome of the random draws, Gsat.run ends with solved = false and
\* best_satisfied_count = 1 (it returns: no exception, no failed
\* assertion), and in every state with a working assignment exactly one of
\* the two clauses is satisfied, by the assignment and by the counts the
\* code keeps.
C17_ScenarioB ==
    ScenarioB =>
        /\ ~solved
        /\ pc \notin {"error", "assert_failed"}
        /\ pc = "done" => best_satisfied_count = 1
        /\ working_config # 0 =>
               /\ SatisfiedClauses(WorkingAssignment) = 1
               /\ Len(get_unsatisfied_clauses(formula,
                                              counts_of_satisfied_literals)) = 1

\* a run that spent its whole budget in random-walk steps returned
C17_Witness ==
    /\ ScenarioB
    /\ pc = "done"
    /\ max_tries = MaxTries
    /\ max_iters = MaxIters
    /\ flip_count = max_tries * max_iters
    /\ probability = 1

---------------------------------------------------------------------------
\* what a scoring must leave alone: the working assignment, the counts and
\* the best so far
Scored ==
    <<working_config, ListOf(working_config), counts_of_satisfied_literals,
      best_config, ListOf(best_config), best_satisfied_count>>

\* C18: no step of _get_best_flips() or of sat_change_if_fliped(v), from
\* the first to the last, changes working_config, the counts, best_config
\* or best_satisfied_count; so every variable is scored on the state the
\* greedy step started in, and the list the steps build is the list
\* _get_best_flips computes on that state.
C18_PureScoring ==
    /\ [][(pc = "score" \/ pc' = "score") => Scored' = Scored]_vars
    /\ [](pc = "choose" => scoring_best_flips = BestFlips)

\* the scoring has run over three variables, one whose flip would break a
\* clause and one whose flip would make one
C18_Witness ==
    /\ pc = "choose"
    /\ nv = 3
    /\ \E v, w \in 1..nv : NetChange(v) < 0 /\ NetChange(w) > 0

---------------------------------------------------------------------------
\* the list _get_best_flips of src/gsat.py computes in the current state
FunctionBestFlips ==
    gsat_get_best_flips(formula, heap[working_config], helper, nv).best_flips

\* C19: in every reachable state with a working assignment (nv >= 1), the
\* list _get_best_flips computes, in src/sat/gsat.py and in src/gsat.py, is
\* not empty; no greedy step fails the assertion `len(best_flips) != 0`.
C19_BestFlipsNonEmpty ==
    /\ (algo = "Gsat" /\ working_config # 0) => Len(BestFlips) # 0
    /\ (algo = "gsat" /\ working_config # 0) => Len(FunctionBestFlips) # 0
    /\ branch = "greedy" => pc # "error"

\* a greedy step was taken with a single variable to choose from, which
\* occurs in both clauses
C19_Witness ==
    /\ algo = "Gsat"
    /\ nv = 1
    /\ Len(formula) = 2
    /\ NoEmptyClause
    /\ branch = "greedy"
    /\ pc = "inspect"

---------------------------------------------------------------------------
\* the clauses (by Python index) that mention variable v, in either polarity
ClausesMentioning(v) ==
    {c - 1 : c \in {d \in 1..Len(formula) :
                       \E j \in 1..Len(formula[d]) : abs(formula[d][j]) = v}}

\* C20: in Gsat, for every variable v of 1..nv, helper[v] and helper[-v] are
\* the same list; its pairs are (clause, index of the clause in the
\* formula), in strictly increasing index, so each clause at most once; the
\* indices are exactly those of the clauses that mention v in either
\* polarity; and no step of a run changes helper.
C20_VariableClauseIndex ==
    /\ [](algo = "Gsat" =>
              /\ DOMAIN helper = Literals(nv)
              /\ \A v \in 1..nv :
                     /\ helper[v] = helper[-v]
                     /\ \A k \in 1..Len(helper[v]) :
                            helper[v][k][1] = formula[helper[v][k][2] + 1]
                     /\ \A k \in 1..(Len(helper[v]) - 1) :
                            helper[v][k][2] < helper[v][k + 1][2]
                     /\ {helper[v][k][2] : k \in 1..Len(helper[v])}
                            = ClausesMentioning(v))
    /\ [][helper' = helper]_vars

\* in a later trial, after flips, of a formula with a clause that mentions
\* a variable twice and a clause that does not mention it
C20_Witness ==
    /\ algo = "Gsat"
    /\ try_no >= 1
    /\ flip_count >= 2
    /\ \E c, d \in 1..Len(formula) :
          /\ Len(formula[c]) = 2
          /\ abs(formula[c][1]) = abs(formula[c][2])
          /\ ClausesMentioning(abs(formula[c][1])) = {c - 1}
          /\ formula[d] # <<>>

---------------------------------------------------------------------------
\* the clauses of the whole formula that are false under a and true under b
NewlyTrue(a, b) ==
    Cardinality({c \in 1..Len(formula) :
                    ~ClauseTrue(a, formula[c]) /\ ClauseTrue(b, formula[c])})

\* C21: in randsat, for every assignment the trial holds and every variable
\* or literal v, satisfaction_changes_on_flip(helper[v], config, v) returns
\* make = the number of clauses of the whole formula unsatisfied now and
\* satisfied after flipping v, and break = the number satisfied now and
\* unsatisfied after flipping v.
C21_MakeBreak ==
    (algo = "randsat" /\ working_config # 0) =>
        LET now == TopAssignment(heap[working_config])
        IN  \A v \in Literals(nv) :
                LET changes == satisfaction_changes_on_flip(
                                   helper[v], heap[working_config], v)
                    after == Flipped(now, abs(v))
                IN  /\ changes.new_satisfied = NewlyTrue(now, after)
                    /\ changes.new_unsatisfied = NewlyTrue(after, now)

\* after a flip, a state in which flipping one variable makes a clause and
\* breaks another, while a clause that does not mention it stays as it is
C21_Witness ==
    /\ algo = "randsat"
    /\ pc = "flip"
    /\ iter_no >= 1
    /\ \E v \in 1..nv :
          LET changes == satisfaction_changes_on_flip(
                             helper[v], heap[working_config], v)
          IN  /\ changes.new_satisfied >= 1
              /\ changes.new_unsatisfied >= 1
              /\ Len(helper[v]) < Len(formula)

---------------------------------------------------------------------------
\* the variables to which the working assignment gives another value after
\* the step than before it
ChangedVariables ==
    {v \in 1..nv : Assignment(ListOf(working_config)')[v] # WorkingAssignment[v]}

\* C22: on a formula without an empty clause, every iteration of a Gsat
\* trial that goes on after its inspection (some clause is unsatisfied)
\* changes the value of exactly one variable of the working assignment, in
\* the random-walk branch and in the greedy branch, whatever the best net
\* change is; none fails and none leaves the assignment as it is.
C22_ForcedFlip ==
    [][(algo = "Gsat" /\ pc = "flip" /\ NoEmptyClause) =>
          /\ pc' \in {"inspect", "try_done"}
          /\ working_config' = working_config
          /\ Cardinality(ChangedVariables) = 1
          /\ flip_count' = flip_count + 1]_vars

\* the first greedy step of a run lowered the number of satisfied clauses
\* below the count the first inspection recorded
C22_Witness ==
    /\ algo = "Gsat"
    /\ NoEmptyClause
    /\ try_no = 0
    /\ iter_no = 1
    /\ pc = "inspect"
    /\ branch = "greedy"
    /\ SatisfiedClauses(WorkingAssignment) < best_satisfied_count

---------------------------------------------------------------------------
\* C23: when Gsat.run returns, best_satisfied_count is at least the number
\* of clauses satisfied by every assignment the working configuration held
\* during the run, and solved is true if one of them satisfies every
\* clause; stated of the assignment it holds last, the one the last flip
\* of the last trial produced.
C23_BestCoversVisited ==
    (algo = "Gsat" /\ pc = "done" /\ NoEmptyClause) =>
        /\ best_satisfied_count >= SatisfiedClauses(WorkingAssignment)
        /\ SatisfiedClauses(WorkingAssignment) = Len(formula) => solved

---------------------------------------------------------------------------
\* the unsatisfied clauses the step of a randsat trial chooses among
ChoosableClauses == top_get_unsatisfied_clauses(formula, heap[working_config])

\* what the selection computes once it has chosen `clause`: every variable
\* has make >= 1 and a positive score, the sum of the scores is not zero,
\* and the sampled variable is one of the clause
SelectionSound(clause) ==
    LET probabilities == clause_scores(clause, heap[working_config], helper,
                                       cm, cb)
        sampled == numpy_random_choice(clause, probabilities)
    IN  /\ \A j \in 1..Len(clause) :
               /\ satisfaction_changes_on_flip(helper[clause[j]],
                                               heap[working_config],
                                               clause[j]).new_satisfied >= 1
               /\ probabilities[j].num > 0
        /\ ~sum_is_zero(probabilities)
        /\ sampled # {}
        /\ sampled \subseteq Range(clause)

\* C24: in every randsat iteration that reaches the selection, whichever
\* unsatisfied clause is chosen, each of its variables has make >= 1 and a
\* strictly positive score, the sum used for the normalisation is not
\* zero, and the variable that is flipped is a variable of that clause.
C24_PositiveMake ==
    (algo = "randsat" /\ pc = "flip") =>
        \A k \in 1..Len(ChoosableClauses) : SelectionSound(ChoosableClauses[k])

\* the same on the formulas without an empty clause
C24_PositiveMakeNonEmpty ==
    (algo = "randsat" /\ pc = "flip" /\ NoEmptyClause) =>
        /\ \A k \in 1..Len(ChoosableClauses) : SelectionSound(ChoosableClauses[k])

---------------------------------------------------------------------------
\* C25: also when a clause mentions a variable more than once (a repeated
\* literal, or both polarities), sat_change_if_fliped(v) is the number of
\* satisfied clauses after flipping v minus the number before, for every
\* variable v.
C25_NetChangeOnRepeatedVariable ==
    (GsatAssigned /\ NoEmptyClause /\ ~NoRepeatedVariable) =>
        \A v \in 1..nv :
            NetChange(v) = SatisfiedClauses(Flipped(WorkingAssignment, v))
                             - SatisfiedClauses(WorkingAssignment)

===========================================================================
